---- MODULE Spec2Model ----
(***************************************************************************)
(* Model of fastdate's Date (src/date.rs): parse_bytes_partial, from_str,   *)
(* Display::fmt and From<DateTime>.  The operations are pure functions; the *)
(* state machine holds an input, and each action applies one operation to   *)
(* it and records what it returned.                                         *)
(***************************************************************************)
EXTENDS Integers, Sequences, FiniteSets, TLC

VARIABLES
    bytes,      \* the byte sequence handed to the parser
    bytes2,     \* a second input, agreeing with bytes on its first 10 bytes
    res,        \* what parse_bytes_partial(bytes) returned
    resStr,     \* what Date::from_str(bytes) returned
    res2,       \* what parse_bytes_partial(bytes2) returned
    resStr2,    \* what Date::from_str(bytes2) returned
    dt,         \* a DateTime value (day, mon, year are the fields used)
    dt2,        \* a second DateTime value
    date,       \* Date::from(dt)
    date2,      \* Date::from(dt2)
    shown,      \* the Date last handed to Display::fmt
    text,       \* what Display::fmt produced for shown
    reparsed,   \* what Date::from_str(text) returned
    cmp         \* what comparing date with date2 gave

vars == <<bytes, bytes2, res, resStr, res2, resStr2, dt, dt2, date, date2,
          shown, text, reparsed, cmp>>

-----------------------------------------------------------------------------
(* Machine integers and byte literals *)

U8 == 256
U16 == 65536

\* b'0'
AsciiZero == 48
\* b'-'
Dash == 45

\* a value not produced by any operation: "not called yet"
None == [tag |-> "None"]

Ok(v) == [tag |-> "Ok", val |-> v]
Err(msg) == [tag |-> "Err", msg |-> msg]

IsOk(r) == r.tag = "Ok"
IsErr(r) == r.tag = "Err"

-----------------------------------------------------------------------------
(* std::str::from_utf8: the well-formed UTF-8 byte sequences *)

Cont(b) == b \in 128..191

RECURSIVE IsUtf8(_)
IsUtf8(s) ==
    IF Len(s) = 0 THEN TRUE
    ELSE LET b == s[1]
             n == Len(s)
             rest(k) == SubSeq(s, k + 1, n)
         IN  IF b < 128 THEN IsUtf8(rest(1))
             ELSE IF b \in 194..223
                  THEN n >= 2 /\ Cont(s[2]) /\ IsUtf8(rest(2))
             ELSE IF b = 224
                  THEN n >= 3 /\ s[2] \in 160..191 /\ Cont(s[3]) /\ IsUtf8(rest(3))
             ELSE IF b \in (225..236) \cup {238, 239}
                  THEN n >= 3 /\ Cont(s[2]) /\ Cont(s[3]) /\ IsUtf8(rest(3))
             ELSE IF b = 237
                  THEN n >= 3 /\ s[2] \in 128..159 /\ Cont(s[3]) /\ IsUtf8(rest(3))
             ELSE IF b = 240
                  THEN n >= 4 /\ s[2] \in 144..191 /\ Cont(s[3]) /\ Cont(s[4])
                       /\ IsUtf8(rest(4))
             ELSE IF b \in 241..243
                  THEN n >= 4 /\ Cont(s[2]) /\ Cont(s[3]) /\ Cont(s[4])
                       /\ IsUtf8(rest(4))
             ELSE IF b = 244
                  THEN n >= 4 /\ s[2] \in 128..143 /\ Cont(s[3]) /\ Cont(s[4])
                       /\ IsUtf8(rest(4))
             ELSE FALSE

-----------------------------------------------------------------------------
(* Date and its parser *)

Date(day, mon, year) == [day |-> day, mon |-> mon, year |-> year]

\* bytes.get_unchecked(index), 0-based
get_unchecked(b, index) == b[index + 1]

\* get_digit_unchecked!(bytes, index, error): the digit's value, or the
\* enclosing function returns Err(error)
get_digit_unchecked(b, index, error) ==
    LET c == get_unchecked(b, index)
    IN  IF c \in AsciiZero..(AsciiZero + 9) THEN Ok(c - AsciiZero) ELSE Err(error)

\* mutants of is_leap: the century exception without its own exception, and
\* the Julian rule
is_leap_no400(year) == year % 4 = 0 /\ year % 100 # 0
is_leap_julian(year) == year % 4 = 0

\* year % 4 == 0 && (year % 100 != 0 || year % 400 == 0)
is_leap(year) == year % 4 = 0 /\ (year % 100 # 0 \/ year % 400 = 0)

\* mutants of max_days: 31 days for the 30-day months; no `_` arm
max_days_all31(month, year) ==
    IF month \in {1, 3, 5, 7, 8, 10, 12} THEN Ok(31)
    ELSE IF month \in {4, 6, 9, 11} THEN Ok(31)
    ELSE IF month = 2 THEN (IF is_leap(year) THEN Ok(29) ELSE Ok(28))
    ELSE Err("OutOfRangeMonth")
max_days_any_month(month, year) ==
    IF month \in {4, 6, 9, 11} THEN Ok(30)
    ELSE IF month = 2 THEN (IF is_leap(year) THEN Ok(29) ELSE Ok(28))
    ELSE Ok(31)

\* the match on month; Err for the `_` arm
max_days(month, year) ==
    IF month \in {1, 3, 5, 7, 8, 10, 12} THEN Ok(31)
    ELSE IF month \in {4, 6, 9, 11} THEN Ok(30)
    ELSE IF month = 2 THEN (IF is_leap(year) THEN Ok(29) ELSE Ok(28))
    ELSE Err("OutOfRangeMonth")

\* mutant of validate: the day's lower bound checked before the month
validate_day_first(day, month, year) ==
    IF day < 1 THEN Err("OutOfRangeDay")
    ELSE LET md == max_days(month, year)
         IN  IF IsErr(md) THEN md
             ELSE IF day > md.val THEN Err("OutOfRangeDay")
             ELSE Ok(Date(day, month, year))

\* what follows the decoding: the match on month, the range check on day and
\* the construction of the value
validate(day, month, year) ==
    LET md == max_days(month, year)
    IN  IF IsErr(md) THEN md
        ELSE IF day < 1 \/ day > md.val THEN Err("OutOfRangeDay")
        ELSE Ok(Date(day, month, year))

parse_bytes_partial(b) ==
    IF Len(b) < 10 THEN Err("TooShort")
    ELSE
    LET y1 == get_digit_unchecked(b, 0, "InvalidCharYear")
        y2 == get_digit_unchecked(b, 1, "InvalidCharYear")
        y3 == get_digit_unchecked(b, 2, "InvalidCharYear")
        y4 == get_digit_unchecked(b, 3, "InvalidCharYear")
        year == (y1.val * 1000 + y2.val * 100 + y3.val * 10 + y4.val) % U16
        m1 == get_digit_unchecked(b, 5, "InvalidCharMonth")
        m2 == get_digit_unchecked(b, 6, "InvalidCharMonth")
        month == (m1.val * 10 + m2.val) % U8
        d1 == get_digit_unchecked(b, 8, "InvalidCharDay")
        d2 == get_digit_unchecked(b, 9, "InvalidCharDay")
        day == (d1.val * 10 + d2.val) % U8
    IN  IF IsErr(y1) THEN y1
        ELSE IF IsErr(y2) THEN y2
        ELSE IF IsErr(y3) THEN y3
        ELSE IF IsErr(y4) THEN y4
        ELSE IF get_unchecked(b, 4) # Dash THEN Err("InvalidCharDateSep")
        ELSE IF IsErr(m1) THEN m1
        ELSE IF IsErr(m2) THEN m2
        ELSE IF get_unchecked(b, 7) # Dash THEN Err("InvalidCharDateSep")
        ELSE IF IsErr(d1) THEN d1
        ELSE IF IsErr(d2) THEN d2
        ELSE validate(day, month, year)

\* mutant of from_str: exactly ten bytes required
from_str_exact(s) ==
    IF Len(s) > 10 THEN Err("TooLong")
    ELSE LET d == parse_bytes_partial(s)
         IN  IF IsErr(d) THEN d ELSE Ok(d.val)

\* FromStr: s.as_bytes() handed to parse_bytes_partial, `?` passes the Err on
from_str(s) ==
    LET d == parse_bytes_partial(s)
    IN  IF IsErr(d) THEN d ELSE Ok(d.val)

\* mutant of from: day and mon exchanged
from_swapped(arg) == Date(arg.mon, arg.day, arg.year)

\* From<DateTime>
from(arg) == Date(arg.day, arg.mon, arg.year)

-----------------------------------------------------------------------------
(* Display *)

\* `x as u8`
as_u8(x) == x % U8

\* mutants of fmt_sums: day written before mon; the hundreds digit without
\* its % 10
fmt_sums_day_first(self) ==
    << AsciiZero + as_u8(self.year \div 1000),
       AsciiZero + as_u8((self.year \div 100) % 10),
       AsciiZero + as_u8((self.year \div 10) % 10),
       AsciiZero + as_u8(self.year % 10),
       Dash,
       AsciiZero + (self.day \div 10),
       AsciiZero + (self.day % 10),
       Dash,
       AsciiZero + (self.mon \div 10),
       AsciiZero + (self.mon % 10) >>
fmt_sums_no_mod(self) ==
    << AsciiZero + as_u8(self.year \div 1000),
       AsciiZero + as_u8(self.year \div 100),
       AsciiZero + as_u8((self.year \div 10) % 10),
       AsciiZero + as_u8(self.year % 10),
       Dash,
       AsciiZero + (self.mon \div 10),
       AsciiZero + (self.mon % 10),
       Dash,
       AsciiZero + (self.day \div 10),
       AsciiZero + (self.day % 10) >>

\* the ten bytes before any wrap: b'0' + digit, '-' at 4 and 7
fmt_sums(self) ==
    << AsciiZero + as_u8(self.year \div 1000),
       AsciiZero + as_u8((self.year \div 100) % 10),
       AsciiZero + as_u8((self.year \div 10) % 10),
       AsciiZero + as_u8(self.year % 10),
       Dash,
       AsciiZero + (self.mon \div 10),
       AsciiZero + (self.mon % 10),
       Dash,
       AsciiZero + (self.day \div 10),
       AsciiZero + (self.day % 10) >>

\* u8 addition overflows: a panic with overflow checks on, a wrap without;
\* then from_utf8(..).unwrap() panics on bytes that are not UTF-8
fmt(self, overflow_checks) ==
    LET sums == fmt_sums(self)
        buf == [i \in 1..10 |-> sums[i] % U8]
    IN  IF overflow_checks /\ \E i \in 1..10 : sums[i] >= U8
        THEN [tag |-> "Panic"]
        ELSE IF ~IsUtf8(buf) THEN [tag |-> "Panic"]
        ELSE Ok(buf)

-----------------------------------------------------------------------------
(* Inputs *)

\* how many positions of a well-formed text are overwritten at most
MaxCorrupt == 2
\* how many bytes follow the tenth at most
MaxTail == 2

Dec2(n) == << AsciiZero + ((n \div 10) % 10), AsciiZero + (n % 10) >>
Dec4(n) == Dec2(n \div 100) \o Dec2(n % 100)
Text(y, m, d) == Dec4(y) \o <<Dash>> \o Dec2(m) \o <<Dash>> \o Dec2(d)

YearSamples == {0, 1, 999, 1234, 1900, 1969, 1970, 2000, 2020, 2023, 2100,
                2400, 9996, 9999}
MonthSamples == (0..13) \cup {19, 20, 99}
DaySamples == (0..32) \cup {39, 40, 99}

\* ten bytes of the right shape, the numbers in or out of range
WellFormed == { Text(y, m, d) : y \in YearSamples, m \in MonthSamples,
                                d \in DaySamples }

\* '-', '/', '0', ':', 'a', 0xFF: around the digits, a separator, not ASCII
CorruptBytes == {45, 47, 48, 58, 97, 255}

CorruptBases == { Text(1234, 12, 13), Text(2000, 13, 99), Text(0, 0, 0) }

RECURSIVE Corrupt(_, _)
Corrupt(S, k) ==
    IF k = 0 THEN S
    ELSE Corrupt(S \cup { [s EXCEPT ![i] = c] :
                          s \in S, i \in 1..10, c \in CorruptBytes }, k - 1)

Corrupted == Corrupt(CorruptBases, MaxCorrupt)

\* fewer than ten bytes: every proper prefix of a text with at most one
\* overwritten byte
Short == { SubSeq(s, 1, n) : s \in Corrupt(CorruptBases, 1), n \in 0..9 }

\* ' ', '1', 0xC3, 0xA9, 0xFF
TailBytes == {32, 49, 195, 169, 255}

RECURSIVE Tails(_)
Tails(k) ==
    IF k = 0 THEN { <<>> }
    ELSE LET T == Tails(k - 1)
         IN  T \cup { t \o <<c>> : t \in T, c \in TailBytes }

\* the text of the test, "1234-12-13 11:12:13.123456"
TestText == Text(1234, 12, 13) \o
            <<32, 49, 49, 58, 49, 50, 58, 49, 51, 46, 49, 50, 51, 52, 53, 54>>

LongBases == Corrupt({ Text(1234, 12, 13), Text(2000, 2, 29), Text(1900, 2, 29),
                       Text(1234, 13, 1) }, 1)

Long == { h \o t : h \in LongBases, t \in Tails(MaxTail) } \cup { TestText }

Inputs == WellFormed \cup Corrupted \cup Short \cup Long

\* the end of February in every year four digits can write
FebruaryTexts == { Text(y, 2, d) : y \in 0..9999, d \in 28..30 }

-----------------------------------------------------------------------------
(* Parsing one input: Spec *)

Init ==
    /\ \/ bytes \in Inputs
       \/ bytes \in FebruaryTexts
    /\ bytes2 = bytes
    /\ res = None /\ resStr = None /\ res2 = None /\ resStr2 = None
    /\ dt = None /\ dt2 = None /\ date = None /\ date2 = None
    /\ shown = None /\ text = None /\ reparsed = None /\ cmp = None

\* Date::parse_bytes_partial(bytes)
CallParseBytesPartial ==
    /\ res = None
    /\ res' = parse_bytes_partial(bytes)
    /\ UNCHANGED <<bytes, bytes2, resStr, res2, resStr2, dt, dt2, date, date2,
                   shown, text, reparsed, cmp>>

\* Date::from_str(s): s is a &str, so bytes is UTF-8
CallFromStr ==
    /\ resStr = None
    /\ IsUtf8(bytes)
    /\ resStr' = from_str(bytes)
    /\ UNCHANGED <<bytes, bytes2, res, res2, resStr2, dt, dt2, date, date2,
                   shown, text, reparsed, cmp>>

\* the Date values the program holds
Held ==
    { r.val : r \in { x \in {res, resStr, res2, resStr2} : IsOk(x) } }
        \cup ({date, date2} \ {None})

\* d.to_string(), for a Date the program holds, under either build profile
CallFmt ==
    /\ text = None
    /\ \E d \in Held, overflow_checks \in BOOLEAN :
          /\ shown' = d
          /\ text' = fmt(d, overflow_checks)
    /\ UNCHANGED <<bytes, bytes2, res, resStr, res2, resStr2, dt, dt2, date,
                   date2, reparsed, cmp>>

Next == CallParseBytesPartial \/ CallFromStr \/ CallFmt

Spec == Init /\ [][Next]_vars

-----------------------------------------------------------------------------
(* Parsing two inputs that share their first ten bytes: SpecTail *)

\* one text per outcome of the parser
TailHeads ==
    LET ok == Text(1234, 12, 13)
    IN  { ok, Text(2000, 2, 29), Text(1900, 2, 29), Text(1234, 13, 1),
          [ok EXCEPT ![3] = 97], [ok EXCEPT ![5] = 120], [ok EXCEPT ![6] = 47],
          [ok EXCEPT ![8] = 32], [ok EXCEPT ![10] = 58], SubSeq(ok, 1, 9) }

OwnTails == { <<>>, <<32, 49>>, <<195, 169>> }

\* the first ten bytes, or all of them when there are fewer
Prefix10(b) == IF Len(b) < 10 THEN b ELSE SubSeq(b, 1, 10)

InitTail ==
    /\ \E h \in TailHeads, t \in OwnTails, t2 \in Tails(MaxTail) :
          /\ bytes = h \o t
          /\ bytes2 = h \o t2
    /\ res = None /\ resStr = None /\ res2 = None /\ resStr2 = None
    /\ dt = None /\ dt2 = None /\ date = None /\ date2 = None
    /\ shown = None /\ text = None /\ reparsed = None /\ cmp = None

\* Date::parse_bytes_partial(bytes2)
CallParseBytesPartial2 ==
    /\ res2 = None
    /\ res2' = parse_bytes_partial(bytes2)
    /\ UNCHANGED <<bytes, bytes2, res, resStr, resStr2, dt, dt2, date, date2,
                   shown, text, reparsed, cmp>>

\* Date::from_str on bytes2, when it is a &str
CallFromStr2 ==
    /\ resStr2 = None
    /\ IsUtf8(bytes2)
    /\ resStr2' = from_str(bytes2)
    /\ UNCHANGED <<bytes, bytes2, res, resStr, res2, dt, dt2, date, date2,
                   shown, text, reparsed, cmp>>

NextTail ==
    CallParseBytesPartial \/ CallFromStr \/ CallParseBytesPartial2 \/ CallFromStr2

SpecTail == InitTail /\ [][NextTail]_vars

-----------------------------------------------------------------------------
(* From a DateTime to a Date, to text and back: SpecDate *)

\* the calendar, as the data model states it
LeapYear(y) == y % 4 = 0 /\ (y % 100 # 0 \/ y % 400 = 0)

DaysInMonth(m, y) ==
    IF m \in {1, 3, 5, 7, 8, 10, 12} THEN 31
    ELSE IF m \in {4, 6, 9, 11} THEN 30
    ELSE IF LeapYear(y) THEN 29 ELSE 28

ValidDate(d) ==
    /\ d.year \in 0..9999
    /\ d.mon \in 1..12
    /\ d.day \in 1..DaysInMonth(d.mon, d.year)

\* the three fields of DateTime that Date reads: day: u8, mon: u8, year: u16
DateTime(day, mon, year) == [day |-> day, mon |-> mon, year |-> year]

\* every year with the other fields at their largest
WideYears == { DateTime(U8 - 1, U8 - 1, y) : y \in 0..(U16 - 1) }

\* every month and day with the year at its largest
WideDays == { DateTime(d, m, U16 - 1) : d \in 0..(U8 - 1), m \in 0..(U8 - 1) }

\* the sampled years with every month and day in and around the calendar's
CalendarDays == { DateTime(d, m, y) : d \in 0..32, m \in 0..13, y \in YearSamples }

\* the ends of February and of December in every year four digits can write
EveryYear == { DateTime(d, m, y) : d \in {28, 29, 31}, m \in {2, 12}, y \in 0..9999 }

InitDate ==
    /\ \/ dt \in WideYears
       \/ dt \in EveryYear
       \/ dt \in WideDays
       \/ dt \in CalendarDays
    /\ dt2 = None
    /\ bytes = <<>> /\ bytes2 = <<>>
    /\ res = None /\ resStr = None /\ res2 = None /\ resStr2 = None
    /\ date = None /\ date2 = None
    /\ shown = None /\ text = None /\ reparsed = None /\ cmp = None

\* Date::from(dt)
CallFrom ==
    /\ dt # None
    /\ date = None
    /\ date' = from(dt)
    /\ UNCHANGED <<bytes, bytes2, res, resStr, res2, resStr2, dt, dt2, date2,
                   shown, text, reparsed, cmp>>

\* Date::from_str(&d.to_string())
CallFromStrText ==
    /\ reparsed = None
    /\ IsOk(text)
    /\ reparsed' = from_str(text.val)
    /\ UNCHANGED <<bytes, bytes2, res, resStr, res2, resStr2, dt, dt2, date,
                   date2, shown, text, cmp>>

NextDate == CallFrom \/ CallFmt \/ CallFromStrText

SpecDate == InitDate /\ [][NextDate]_vars

-----------------------------------------------------------------------------
(* Comparing two Dates: SpecOrd *)

\* #[derive(Copy, Clone, Debug, Eq, PartialEq, Hash)]
Derives == {"Copy", "Clone", "Debug", "Eq", "PartialEq", "Hash"}

\* the fields of Date in the order the struct declares them
Fields == <<"day", "mon", "year">>

\* what #[derive(PartialOrd)] compares: the fields in declaration order
RECURSIVE derived_cmp(_, _, _)
derived_cmp(a, b, i) ==
    IF i > Len(Fields) THEN Ok("Equal")
    ELSE IF a[Fields[i]] < b[Fields[i]] THEN Ok("Less")
    ELSE IF a[Fields[i]] > b[Fields[i]] THEN Ok("Greater")
    ELSE derived_cmp(a, b, i + 1)

\* a.partial_cmp(&b): there is one only if the struct derives it
partial_cmp(a, b) ==
    IF "PartialOrd" \in Derives THEN derived_cmp(a, b, 1)
    ELSE [tag |-> "Unimplemented"]

OrdDateTimes == { DateTime(d, m, y) : d \in {1, 2, 28}, m \in {1, 2, 12},
                                      y \in {1999, 2000} }

InitOrd ==
    /\ dt \in OrdDateTimes
    /\ dt2 \in OrdDateTimes
    /\ bytes = <<>> /\ bytes2 = <<>>
    /\ res = None /\ resStr = None /\ res2 = None /\ resStr2 = None
    /\ date = None /\ date2 = None
    /\ shown = None /\ text = None /\ reparsed = None /\ cmp = None

\* Date::from(dt2)
CallFrom2 ==
    /\ dt2 # None
    /\ date2 = None
    /\ date2' = from(dt2)
    /\ UNCHANGED <<bytes, bytes2, res, resStr, res2, resStr2, dt, dt2, date,
                   shown, text, reparsed, cmp>>

\* date < date2
CallLt ==
    /\ date # None /\ date2 # None
    /\ cmp = None
    /\ cmp' = partial_cmp(date, date2)
    /\ UNCHANGED <<bytes, bytes2, res, resStr, res2, resStr2, dt, dt2, date,
                   date2, shown, text, reparsed>>

NextOrd == CallFrom \/ CallFrom2 \/ CallLt

SpecOrd == InitOrd /\ [][NextOrd]_vars

-----------------------------------------------------------------------------
(* Properties *)

\* the results the parser has returned for bytes
Returned == {res, resStr} \ {None}

\* C1: whenever a parse of s succeeded, formatting the Date it returned gives
\* exactly the first ten bytes of s, whatever follows them
C1_FormatOfParse ==
    text # None => text = Ok(Prefix10(bytes))

C1_Witness ==
    /\ bytes = TestText
    /\ IsOk(resStr)
    /\ text = Ok(Text(1234, 12, 13))

\* C2: for every valid Date d, formatting d succeeds and parsing the text
\* gives back a Date equal to d in all three fields
C2_RoundTrip ==
    (date # None /\ ValidDate(date) /\ text # None) =>
        /\ shown = date
        /\ IsOk(text)
        /\ reparsed # None =>
              /\ IsOk(reparsed)
              /\ reparsed.val.day = date.day
              /\ reparsed.val.mon = date.mon
              /\ reparsed.val.year = date.year

C2_Witness ==
    /\ date = Date(29, 2, 2000)
    /\ reparsed = Ok(date)

\* the first check of the documented order that the input fails
FirstFailure(b) ==
    LET digit(i) == b[i] \in 48..57
        num(i) == b[i] - 48
        year == num(1) * 1000 + num(2) * 100 + num(3) * 10 + num(4)
        month == num(6) * 10 + num(7)
        day == num(9) * 10 + num(10)
    IN  IF Len(b) < 10 THEN "TooShort"
        ELSE IF \E i \in 1..4 : ~digit(i) THEN "InvalidCharYear"
        ELSE IF b[5] # 45 THEN "InvalidCharDateSep"
        ELSE IF \E i \in 6..7 : ~digit(i) THEN "InvalidCharMonth"
        ELSE IF b[8] # 45 THEN "InvalidCharDateSep"
        ELSE IF \E i \in 9..10 : ~digit(i) THEN "InvalidCharDay"
        ELSE IF month \notin 1..12 THEN "OutOfRangeMonth"
        ELSE IF day \notin 1..DaysInMonth(month, year) THEN "OutOfRangeDay"
        ELSE "Success"

\* C3: a parse fails with the failure of the first failing check of the
\* order length, year digits, separator, month digits, separator, day
\* digits, month range, day range, and succeeds when no check fails
C3_FirstFailingCheck ==
    \A r \in Returned :
        IF FirstFailure(bytes) = "Success" THEN IsOk(r)
        ELSE r = Err(FirstFailure(bytes))

C3_Witness ==
    /\ bytes = Text(0, 0, 0)
    /\ res = Err("OutOfRangeMonth")
    /\ resStr = Err("OutOfRangeMonth")

\* 4 digits, '-', 2 digits, '-', 2 digits
Shaped(b) ==
    /\ Len(b) >= 10
    /\ \A i \in {1, 2, 3, 4, 6, 7, 9, 10} : b[i] \in 48..57
    /\ b[5] = 45 /\ b[8] = 45

\* the decimal value of the digits at positions i..j
RECURSIVE Decimal(_, _, _)
Decimal(b, i, j) ==
    IF j < i THEN 0 ELSE Decimal(b, i, j - 1) * 10 + (b[j] - 48)

\* C4: for a well-formed input whose month is in 1..12, the parse succeeds
\* iff 1 <= day <= days_in_month(month, year) and fails with OutOfRangeDay
\* otherwise; on success the fields are the decimal values of the digit groups
C4_DayRange ==
    (Shaped(bytes) /\ Decimal(bytes, 6, 7) \in 1..12) =>
        LET y == Decimal(bytes, 1, 4)
            m == Decimal(bytes, 6, 7)
            d == Decimal(bytes, 9, 10)
        IN  \A r \in Returned :
                IF d \in 1..DaysInMonth(m, y)
                THEN r = Ok(Date(d, m, y))
                ELSE r = Err("OutOfRangeDay")

C4_Witness ==
    /\ bytes = Text(2400, 2, 29)
    /\ res = Ok(Date(29, 2, 2400))

\* C5: a Date returned by a parse has 1 <= mon <= 12, 1 <= day <=
\* days_in_month(mon, year) and 0 <= year <= 9999; a failed parse carries
\* no Date
C5_ParsedIsValid ==
    \A r \in Returned :
        /\ r.tag \in {"Ok", "Err"}
        /\ IsOk(r) => ValidDate(r.val)
        /\ IsErr(r) => "val" \notin DOMAIN r

C5_Witness ==
    /\ Len(bytes) > 10
    /\ res = Ok(Date(29, 2, 2000))

\* C6: two inputs of at least ten bytes that agree on their first ten get
\* the same outcome from parse_bytes_partial and from from_str, and from_str
\* gives every string the outcome parse_bytes_partial gives its bytes
C6_TailIgnored ==
    /\ (Len(bytes) >= 10 /\ Len(bytes2) >= 10
            /\ SubSeq(bytes, 1, 10) = SubSeq(bytes2, 1, 10)) =>
        Cardinality({res, resStr, res2, resStr2} \ {None}) <= 1
    /\ (res # None /\ resStr # None) => resStr = res
    /\ (res2 # None /\ resStr2 # None) => resStr2 = res2

C6_Witness ==
    /\ Len(bytes) = 10 /\ Len(bytes2) > 10
    /\ res = Ok(Date(13, 12, 1234))
    /\ res2 = res /\ resStr = res /\ resStr2 = res

\* (year, mon, day) compared lexicographically
ChronoLess(a, b) ==
    \/ a.year < b.year
    \/ a.year = b.year /\ a.mon < b.mon
    \/ a.year = b.year /\ a.mon = b.mon /\ a.day < b.day

\* C7: Dates can be compared, and a < b iff (a.year, a.mon, a.day) is
\* lexicographically less than (b.year, b.mon, b.day)
C7_ChronoOrder ==
    cmp # None =>
        /\ IsOk(cmp)
        /\ cmp.val = "Less" <=> ChronoLess(date, date2)

C9_FromCopies ==
    date # None =>
        /\ DOMAIN date = {"day", "mon", "year"}
        /\ date.day = dt.day /\ date.mon = dt.mon /\ date.year = dt.year

C9_Witness ==
    /\ dt.mon = 13 /\ dt.day = 0
    /\ date = Date(0, 13, dt.year)

\* C10: formatting any Date with day, mon in 0..255 and year in 0..65535
\* never panics under either build profile and writes ten ASCII bytes with
\* '-' at offsets 4 and 7; for a valid Date the other eight are the
\* zero-padded decimal digits of year, mon and day
C10_FormatTotal ==
    text # None =>
        /\ IsOk(text)
        /\ DOMAIN text.val = 1..10
        /\ text.val[5] = 45 /\ text.val[8] = 45
        /\ \A i \in 1..10 : text.val[i] \in 0..127
        /\ ValidDate(shown) =>
              /\ \A i \in {1, 2, 3, 4, 6, 7, 9, 10} : text.val[i] \in 48..57
              /\ Decimal(text.val, 1, 4) = shown.year
              /\ Decimal(text.val, 6, 7) = shown.mon
              /\ Decimal(text.val, 9, 10) = shown.day

C10_Witness ==
    /\ shown = Date(255, 255, 65535)
    /\ IsOk(text)

====
